---- MODULE Spec2Model ----
(***************************************************************************)
(* A model of eastpy/movies.py: the fixed movie collection, the three      *)
(* formatters, the lister/finder pair and the two client adaptors.         *)
(*                                                                         *)
(* Text is modelled as a tuple of one-character strings, so that           *)
(* formatting, JSON escaping, file positions and truncation are computed   *)
(* character by character, as the Python code computes them.               *)
(***************************************************************************)
EXTENDS Integers, Sequences, FiniteSets, TLC

VARIABLES
    movies,      \* ExampleMovieFinder._MOVIES: the ExampleMovie objects
    formatter,   \* the JSONArrayMovieFormatter instance: _array, _stream
    sinks,       \* the text each open stream has received so far
    file,        \* the contents of the file at the file adaptor's path
    hist,        \* per movie: every format call on it (formatter, text, slot after)
    arrayCalls,  \* the calls made on the JSONArrayMovieFormatter since __init__
    fileLog,     \* the text each ExampleMoviesClientFileAdaptor.append wrote
    last,        \* the most recent top-level call: its arguments and effects
    steps        \* number of top-level calls made so far

vars == <<movies, formatter, sinks, file, hist, arrayCalls, fileLog, last, steps>>

---------------------------------------------------------------------------
(* Bounds: how many top-level calls a behaviour makes under each           *)
(* specification.                                                          *)
MaxListerSteps == 2
MaxFormatterSteps == 3
MaxMovieSteps == 2
MaxFormatSteps == 3

---------------------------------------------------------------------------
(* String literals of the source.                                          *)
StarWars ==
    <<"S", "t", "a", "r", " ", "W", "a", "r", "s">>
LostHighway ==
    <<"L", "o", "s", "t", " ", "H", "i", "g", "h", "w", "a", "y">>
NakedLunch ==
    <<"N", "a", "k", "e", "d", " ", "L", "u", "n", "c", "h">>
MulhollandDr ==
    <<"M", "u", "l", "h", "o", "l", "l", "a", "n", "d", " ", "D", "r">>
BuckarooBanzai ==
    <<"T", "h", "e", " ", "A", "d", "v", "e", "n", "t", "u", "r", "e", "s", " ",
      "o", "f", " ", "B", "u", "c", "k", "a", "r", "o", "o", " ", "B", "a", "n",
      "z", "a", "i", " ", "A", "c", "r", "o", "s", "s", " ", "t", "h", "e", " ",
      "8", "t", "h", " ", "D", "i", "m", "e", "n", "s", "i", "o", "n">>
WildAtHeart ==
    <<"W", "i", "l", "d", " ", "A", "t", " ", "H", "e", "a", "r", "t">>
GeorgeLucas ==
    <<"G", "e", "o", "r", "g", "e", " ", "L", "u", "c", "a", "s">>
DavidLynch ==
    <<"D", "a", "v", "i", "d", " ", "L", "y", "n", "c", "h">>
DavidCronenberg ==
    <<"D", "a", "v", "i", "d", " ", "C", "r", "o", "n", "e", "n", "b", "e", "r", "g">>
WDRichter ==
    <<"W", ".", "D", ".", " ", "R", "i", "c", "h", "t", "e", "r">>

\* 'Movie (title: {}, director: {})\n'
SimplePrefix ==
    <<"M", "o", "v", "i", "e", " ", "(", "t", "i", "t", "l", "e", ":", " ">>
SimpleMiddle ==
    <<",", " ", "d", "i", "r", "e", "c", "t", "o", "r", ":", " ">>
SimpleSuffix ==
    <<")", "\n">>

\* json.dumps of {'title': ..., 'director': ...}: '{"title": ' and ', "director": '
JsonTitleKey ==
    <<"{", "\"", "t", "i", "t", "l", "e", "\"", ":", " ">>
JsonDirectorKey ==
    <<",", " ", "\"", "d", "i", "r", "e", "c", "t", "o", "r", "\"", ":", " ">>

NL == <<"\n">>

\* The three MovieFormatter classes.
SIMPLE == "SimpleStringMovieFormatter"
JSON == "JSONMovieFormatter"
ARRAY == "JSONArrayMovieFormatter"
Formatters == {SIMPLE, JSON, ARRAY}

\* self._stream = None
None == "None"

\* The streams a caller hands in (sys.stdout, and a second open text stream),
\* and the handle the file adaptor opens on its path.
STDOUT == "stdout"
CAPTURE == "capture"
Sinks == {STDOUT, CAPTURE}
FILE == "file"

---------------------------------------------------------------------------
(* Inputs drawn by the actions.                                            *)

\* A director spelled in lower case: equal to no movie's director.
LowerDavidLynch ==
    <<"d", "a", "v", "i", "d", " ", "l", "y", "n", "c", "h">>
Directors == {GeorgeLucas, DavidLynch, LowerDavidLynch}

\* MovieValue objects: the attrs defaults, and a title that json must escape.
QuotedM ==
    <<"\"", "M", "\"">>
FritzLang ==
    <<"F", "r", "i", "t", "z", " ", "L", "a", "n", "g">>
MovieValue(title, director) == [title |-> title, director |-> director]
MovieValues == {MovieValue(<<>>, <<>>), MovieValue(QuotedM, FritzLang)}

\* The callbacks handed to the lister, as the entry point builds them.
ClientActions ==
    { [client |-> "stream", stream |-> STDOUT, formatter |-> JSON],
      [client |-> "stream", stream |-> STDOUT, formatter |-> ARRAY],
      [client |-> "file", stream |-> FILE, formatter |-> SIMPLE] }

---------------------------------------------------------------------------
(* ExampleMovie.__init__ and the class attribute _MOVIES.                  *)
ExampleMovie(title, director) ==
    [_title |-> title, _director |-> director, _formatted_movie |-> <<>>]

_MOVIES ==
    << ExampleMovie(StarWars, GeorgeLucas),
       ExampleMovie(LostHighway, DavidLynch),
       ExampleMovie(NakedLunch, DavidCronenberg),
       ExampleMovie(MulhollandDr, DavidLynch),
       ExampleMovie(BuckarooBanzai, WDRichter),
       ExampleMovie(WildAtHeart, DavidLynch) >>

MovieIds == 1..Len(_MOVIES)

---------------------------------------------------------------------------
(* Text helpers: str.format and json.dumps.                                *)

\* json.dumps escapes the quote, the backslash and the newline of a str.
json_escape(c) ==
    IF c = "\"" THEN <<"\\", "\"">>
    ELSE IF c = "\\" THEN <<"\\", "\\">>
    ELSE IF c = "\n" THEN <<"\\", "n">>
    ELSE <<c>>

RECURSIVE json_escape_all(_)
json_escape_all(s) ==
    IF s = <<>> THEN <<>> ELSE json_escape(Head(s)) \o json_escape_all(Tail(s))

json_dumps_str(s) == <<"\"">> \o json_escape_all(s) \o <<"\"">>

\* json.dumps of a dict with the keys title, director (in that order)
json_dumps_dict(d) ==
    JsonTitleKey \o json_dumps_str(d.title)
        \o JsonDirectorKey \o json_dumps_str(d.director) \o <<"}">>

RECURSIVE json_join(_)
json_join(l) ==
    IF l = <<>> THEN <<>>
    ELSE IF Len(l) = 1 THEN json_dumps_dict(l[1])
    ELSE json_dumps_dict(Head(l)) \o <<",", " ">> \o json_join(Tail(l))

\* json.dumps of a list of such dicts
json_dumps_list(l) == <<"[">> \o json_join(l) \o <<"]">>

\* SimpleStringMovieFormatter._create_formatted_movie
SimpleString_create_formatted_movie(title, director) ==
    SimplePrefix \o title \o SimpleMiddle \o director \o SimpleSuffix

\* JSONMovieFormatter._create_formatted_movie
JSON_create_formatted_movie(title, director) ==
    json_dumps_dict([title |-> title, director |-> director]) \o NL

\* Variants of JSONArrayMovieFormatter._create_formatted_movie: one that
\* encodes only the newest entry, one that leaves out the newline.
JSONArray_create_latest_only(_array) ==
    json_dumps_list(IF _array = <<>> THEN <<>> ELSE <<_array[Len(_array)]>>) \o NL
JSONArray_create_without_newline(_array) ==
    json_dumps_list(_array)

\* JSONArrayMovieFormatter._create_formatted_movie
JSONArray_create_formatted_movie(_array) ==
    json_dumps_list(_array) \o NL

\* attr.asdict(movie) for a MovieValue
asdict(movie) == [title |-> movie.title, director |-> movie.director]

---------------------------------------------------------------------------
(* The state a call works on.  A call is evaluated as a function from the  *)
(* state before it to the state after it; besides the program's objects    *)
(* the record carries what the call did (events), whether it raised, and   *)
(* its return value.                                                       *)

\* Return values: None, or the object a method returns as "self".
ReturnsNone == <<"None">>
ReturnsMovie(m) == <<"movie", m>>
ReturnsFormatter == <<"formatter">>
ReturnsLister == <<"lister">>

World(failing) ==
    [ movies |-> movies,
      _array |-> formatter._array,
      _stream |-> formatter._stream,
      sinks |-> sinks,
      file |-> file,
      hist |-> hist,
      arrayCalls |-> arrayCalls,
      fileLog |-> fileLog,
      failing |-> failing,       \* the streams whose write raises in this call
      events |-> <<>>,
      raised |-> FALSE,
      ret |-> ReturnsNone ]

\* Sequencing: evaluate the state w a call returns once, then continue with it.
Then(w, Rest(_)) == CHOOSE r \in { Rest(x) : x \in {w} } : TRUE

Event(ev, m, stream, text) == [ev |-> ev, movie |-> m, stream |-> stream, text |-> text]

\* stream.write(text): a stream in append mode (the file handle) and a plain
\* text stream both add the text at their end; a failing stream raises and
\* receives nothing.
write(w, stream, text) ==
    IF stream \in w.failing
    THEN [w EXCEPT !.raised = TRUE,
                   !.events = Append(@, Event("write_raised", 0, stream, text))]
    ELSE IF stream = FILE
    THEN [w EXCEPT !.file = @ \o text,
                   !.events = Append(@, Event("write", 0, stream, text)),
                   !.ret = ReturnsNone]
    ELSE [w EXCEPT !.sinks[stream] = @ \o text,
                   !.events = Append(@, Event("write", 0, stream, text)),
                   !.ret = ReturnsNone]

---------------------------------------------------------------------------
(* ExampleMovie                                                            *)

\* A set_format that adds to the slot instead of replacing it.
set_format_appending(w, m, formatted_movie) ==
    [w EXCEPT !.movies[m]._formatted_movie = @ \o formatted_movie,
              !.ret = ReturnsMovie(m)]

\* ExampleMovie.set_format
set_format(w, m, formatted_movie) ==
    [w EXCEPT !.movies[m]._formatted_movie = formatted_movie,
              !.ret = ReturnsMovie(m)]

\* Observation: formatter k was asked to format movie m, computed text, and
\* the call left stored in the movie's slot.
note_format(w, m, k, text) ==
    [w EXCEPT !.hist[m] = Append(@, [formatter |-> k, text |-> text,
                                     stored |-> w.movies[m]._formatted_movie])]

---------------------------------------------------------------------------
(* The formatters                                                          *)

\* SimpleStringMovieFormatter.format
SimpleString_format(w, m, title, director) ==
    LET text == SimpleString_create_formatted_movie(title, director)
        w1 == note_format(set_format(w, m, text), m, SIMPLE, text)
    IN  [w1 EXCEPT !.ret = ReturnsFormatter]

\* JSONMovieFormatter.format
JSON_format(w, m, title, director) ==
    LET text == JSON_create_formatted_movie(title, director)
        w1 == note_format(set_format(w, m, text), m, JSON, text)
    IN  [w1 EXCEPT !.ret = ReturnsFormatter]

\* Observation: one call on the JSONArrayMovieFormatter instance.
note_array_call(w, op, entry, text, stream, raised) ==
    [w EXCEPT !.arrayCalls =
        Append(@, [op |-> op, entry |-> entry, text |-> text,
                   stream |-> stream, raised |-> raised])]

\* JSONArrayMovieFormatter.format
JSONArray_format(w, m, title, director) ==
    LET w1 == [w EXCEPT !._array = Append(@, [title |-> title, director |-> director])]
        text == JSONArray_create_formatted_movie(w1._array)
        w2 == note_format(set_format(w1, m, text), m, ARRAY, text)
        w3 == note_array_call(w2, "format", [title |-> title, director |-> director],
                              text, None, FALSE)
    IN  [w3 EXCEPT !.ret = ReturnsFormatter]

\* MovieFormatter.format, dispatched on the formatter's class
Formatter_format(w, k, m, title, director) ==
    CASE k = SIMPLE -> SimpleString_format(w, m, title, director)
      [] k = JSON -> JSON_format(w, m, title, director)
      [] k = ARRAY -> JSONArray_format(w, m, title, director)

\* SimpleStringMovieFormatter.format_and_print_on
SimpleString_format_and_print_on(w, movie, stream) ==
    LET w1 == write(w, stream, SimpleString_create_formatted_movie(movie.title, movie.director))
    IN  IF w1.raised THEN w1 ELSE [w1 EXCEPT !.ret = ReturnsFormatter]

\* JSONMovieFormatter.format_and_print_on: the formatted movie, then '\n'
JSON_format_and_print_on(w, movie, stream) ==
    LET d == asdict(movie)
        w1 == write(w, stream, JSON_create_formatted_movie(d.title, d.director))
        w2 == IF w1.raised THEN w1 ELSE write(w1, stream, NL)
    IN  IF w2.raised THEN w2 ELSE [w2 EXCEPT !.ret = ReturnsFormatter]

\* A _stream assignment that always takes the newest stream.
latch_stream_latest(_stream, stream) == stream

\* "if self._stream is None: self._stream = stream"
latch_stream(_stream, stream) ==
    IF _stream = None THEN stream ELSE _stream

\* A format_and_print_on that keeps the new entry only once the write has
\* succeeded.
JSONArray_format_and_print_on_rollback(w, movie, stream) ==
    LET w1 == [w EXCEPT !._stream = latch_stream(@, stream)]
        w2 == [w1 EXCEPT !._array = Append(@, asdict(movie))]
        text == JSONArray_create_formatted_movie(w2._array)
        w3 == write(w2, stream, text)
        w4 == IF w3.raised THEN [w3 EXCEPT !._array = w1._array] ELSE w3
        w5 == note_array_call(w4, "format_and_print_on", asdict(movie), text,
                              stream, w4.raised)
    IN  IF w5.raised THEN w5 ELSE [w5 EXCEPT !.ret = ReturnsFormatter]

\* JSONArrayMovieFormatter.format_and_print_on
JSONArray_format_and_print_on(w, movie, stream) ==
    LET w1 == [w EXCEPT !._stream = latch_stream(@, stream)]
        w2 == [w1 EXCEPT !._array = Append(@, asdict(movie))]
        text == JSONArray_create_formatted_movie(w2._array)
        w3 == write(w2, stream, text)
        w4 == note_array_call(w3, "format_and_print_on", asdict(movie), text,
                              stream, w3.raised)
    IN  IF w4.raised THEN w4 ELSE [w4 EXCEPT !.ret = ReturnsFormatter]

\* JSONArrayMovieFormatter.collect_and_print
collect_and_print(w) ==
    IF Len(w._array) > 0 /\ w._stream # None
    THEN write(w, w._stream, JSONArray_create_formatted_movie(w._array))
    ELSE [w EXCEPT !.ret = ReturnsNone]

---------------------------------------------------------------------------
(* ExampleMovie, continued                                                 *)

\* ExampleMovie.format_with
format_with(w, m, k) ==
    LET w1 == Formatter_format(w, k, m, w.movies[m]._title, w.movies[m]._director)
    IN  [w1 EXCEPT !.ret = ReturnsMovie(m)]

\* A print_on that formats the movie again instead of writing the slot.
print_on_reformatting(w, m, stream) ==
    write(w, stream,
          SimpleString_create_formatted_movie(w.movies[m]._title, w.movies[m]._director))

\* ExampleMovie.print_on
print_on(w, m, stream) ==
    write(w, stream, w.movies[m]._formatted_movie)

---------------------------------------------------------------------------
(* The client adaptors                                                     *)

\* ExampleMoviesClientStreamAdaptor.append
StreamAdaptor_append(w, stream, k, m) ==
    Then(format_with(w, m, k), LAMBDA w1 : print_on(w1, m, stream))

\* An open that leaves the position at the start of the file.
open_position_at_start(contents) == 0

\* open(path, 'a'): mode 'a' opens for appending; the stream starts positioned
\* at the end of the file (f.tell() is the file's size), the file is created
\* empty if it does not exist.
open_append_position(contents) == Len(contents)

\* f.truncate() with no size: resize the file to the current stream position,
\* keeping what lies before it.
truncate(contents, position) ==
    IF position <= Len(contents) THEN SubSeq(contents, 1, position) ELSE contents

\* ExampleMoviesClientFileAdaptor.append: open in append mode, truncate at the
\* position the open left, format, print on the handle (fileLog observes the
\* text printed); the with-block closes the handle.
FileAdaptor_append(w, k, m) ==
    LET position == open_append_position(w.file)
    IN  Then([w EXCEPT !.file = truncate(@, position)], LAMBDA w1 :
        Then(format_with(w1, m, k), LAMBDA w2 :
        Then(print_on(w2, m, FILE), LAMBDA w3 :
             [w3 EXCEPT !.fileLog = Append(@, w3.movies[m]._formatted_movie)])))

---------------------------------------------------------------------------
(* Movie predicates, finder and lister                                     *)

\* The callback handed to the lister: a client's append.
call_action(w, action, m) ==
    Then([w EXCEPT !.events = Append(@, Event("action", m, "", <<>>))], LAMBDA w1 :
         IF action.client = "stream"
         THEN StreamAdaptor_append(w1, action.stream, action.formatter, m)
         ELSE FileAdaptor_append(w1, action.formatter, m))

UpperCase ==
    <<"A", "B", "C", "D", "E", "F", "G", "H", "I", "J", "K", "L", "M",
      "N", "O", "P", "Q", "R", "S", "T", "U", "V", "W", "X", "Y", "Z">>
LowerCase ==
    <<"a", "b", "c", "d", "e", "f", "g", "h", "i", "j", "k", "l", "m",
      "n", "o", "p", "q", "r", "s", "t", "u", "v", "w", "x", "y", "z">>
lower(s) ==
    [i \in 1..Len(s) |->
        IF \E j \in 1..Len(UpperCase) : UpperCase[j] = s[i]
        THEN LowerCase[CHOOSE j \in 1..Len(UpperCase) : UpperCase[j] = s[i]]
        ELSE s[i]]

\* A director test that ignores case.
directed_by_ignoring_case(movie, director) ==
    lower(movie._director) = lower(director)

\* "self._director == director"
directed_by(movie, director) ==
    movie._director = director

\* ExampleMovie.if_directed_by_do
if_directed_by_do(w, m, director, action) ==
    Then(IF directed_by(w.movies[m], director) THEN call_action(w, action, m) ELSE w,
         LAMBDA w1 : IF w1.raised THEN w1 ELSE [w1 EXCEPT !.ret = ReturnsMovie(m)])

\* "for movie in self._MOVIES: selector(movie)", from the i-th movie on, with
\* the lister's selector: movie.if_directed_by_do(director, action)
RECURSIVE find_all_and_apply_from(_, _, _, _)
find_all_and_apply_from(w, i, director, action) ==
    IF i > Len(w.movies) \/ w.raised THEN w
    ELSE Then(if_directed_by_do(w, i, director, action),
              LAMBDA w1 : find_all_and_apply_from(w1, i + 1, director, action))

\* The same loop, from the i-th movie down to the first.
RECURSIVE find_all_and_apply_down(_, _, _, _)
find_all_and_apply_down(w, i, director, action) ==
    IF i < 1 \/ w.raised THEN w
    ELSE Then(if_directed_by_do(w, i, director, action),
              LAMBDA w1 : find_all_and_apply_down(w1, i - 1, director, action))

\* A finder that visits the collection in reverse order.
find_all_and_apply_reversed(w, director, action) ==
    Then(find_all_and_apply_down(w, Len(w.movies), director, action),
         LAMBDA w1 : IF w1.raised THEN w1 ELSE [w1 EXCEPT !.ret = ReturnsNone])

\* ExampleMovieFinder.find_all_and_apply
find_all_and_apply(w, director, action) ==
    Then(find_all_and_apply_from(w, 1, director, action),
         LAMBDA w1 : IF w1.raised THEN w1 ELSE [w1 EXCEPT !.ret = ReturnsNone])

\* ExampleMovieLister.apply_to_movies_directed_by
apply_to_movies_directed_by(w, action, director) ==
    Then(find_all_and_apply(w, director, action),
         LAMBDA w1 : IF w1.raised THEN w1 ELSE [w1 EXCEPT !.ret = ReturnsLister])

---------------------------------------------------------------------------
(* Initial state: the module has been imported, _MOVIES built, a           *)
(* JSONArrayMovieFormatter constructed, the streams opened and the file    *)
(* at the adaptor's path not yet written.                                  *)

NoAction == [client |-> "", stream |-> "", formatter |-> ""]

Call(op, m, k, stream, director, value, action, w) ==
    [ op |-> op, movie |-> m, formatter |-> k, stream |-> stream,
      director |-> director, value |-> value, action |-> action,
      events |-> w.events, raised |-> w.raised, ret |-> w.ret ]

Init ==
    /\ movies = _MOVIES
    /\ formatter = [_array |-> <<>>, _stream |-> None]
    /\ sinks = [s \in Sinks |-> <<>>]
    /\ file = <<>>
    /\ hist = [m \in MovieIds |-> <<>>]
    /\ arrayCalls = <<>>
    /\ fileLog = <<>>
    /\ last = [ op |-> "", movie |-> 0, formatter |-> "", stream |-> "",
                director |-> <<>>, value |-> MovieValue(<<>>, <<>>),
                action |-> NoAction, events |-> <<>>, raised |-> FALSE,
                ret |-> ReturnsNone ]
    /\ steps = 0

\* The state a call leaves behind.
Commit(w, call) ==
    /\ movies' = w.movies
    /\ formatter' = [_array |-> w._array, _stream |-> w._stream]
    /\ sinks' = w.sinks
    /\ file' = w.file
    /\ hist' = w.hist
    /\ arrayCalls' = w.arrayCalls
    /\ fileLog' = w.fileLog
    /\ last' = call
    /\ steps' = steps + 1

---------------------------------------------------------------------------
(* Actions: one per top-level call.                                        *)

\* movie.if_directed_by_do(director, action)
IfDirectedByDo(max) ==
    /\ steps < max
    /\ \E m \in MovieIds, director \in Directors, action \in ClientActions :
        \E w0 \in {World({})} :
        \E w \in {if_directed_by_do(w0, m, director, action)} :
            Commit(w, Call("if_directed_by_do", m, "", "", director,
                           MovieValue(<<>>, <<>>), action, w))

\* ExampleMovieLister(ExampleMovieFinder()).apply_to_movies_directed_by(action, director)
ApplyToMoviesDirectedBy(max) ==
    /\ steps < max
    /\ \E director \in Directors, action \in ClientActions :
        \E w0 \in {World({})} :
        \E w \in {apply_to_movies_directed_by(w0, action, director)} :
            Commit(w, Call("apply_to_movies_directed_by", 0, "", "", director,
                           MovieValue(<<>>, <<>>), action, w))

\* JSONArrayMovieFormatter(): a fresh instance replaces the old one
ArrayInit(max) ==
    /\ steps < max
    /\ \E w0 \in {World({})} :
       \E w \in {[w0 EXCEPT !._array = <<>>, !._stream = None,
                                   !.arrayCalls = <<>>, !.ret = ReturnsFormatter]} :
            Commit(w, Call("__init__", 0, ARRAY, "", <<>>, MovieValue(<<>>, <<>>),
                           NoAction, w))

\* movie.format_with(formatter), for a formatter of one of the classes kinds
FormatWith(max, kinds) ==
    /\ steps < max
    /\ \E m \in MovieIds, k \in kinds :
        \E w0 \in {World({})} :
        \E w \in {format_with(w0, m, k)} :
            Commit(w, Call("format_with", m, k, "", <<>>, MovieValue(<<>>, <<>>),
                           NoAction, w))

\* movie.print_on(stream)
PrintOn(max) ==
    /\ steps < max
    /\ \E m \in MovieIds, stream \in Sinks :
        \E w0 \in {World({})} :
        \E w \in {print_on(w0, m, stream)} :
            Commit(w, Call("print_on", m, "", stream, <<>>, MovieValue(<<>>, <<>>),
                           NoAction, w))

\* formatter.format_and_print_on(movie, stream), for the stateless formatters
FormatAndPrintOn(max) ==
    /\ steps < max
    /\ \E k \in {SIMPLE, JSON}, value \in MovieValues, stream \in Sinks :
        \E w0 \in {World({})} :
        \E w \in {IF k = SIMPLE
                   THEN SimpleString_format_and_print_on(w0, value, stream)
                   ELSE JSON_format_and_print_on(w0, value, stream)} :
            Commit(w, Call("format_and_print_on", 0, k, stream, <<>>, value,
                           NoAction, w))

\* JSONArrayMovieFormatter.format_and_print_on(movie, stream).  This is the
\* method that changes the formatter before it writes, so here the stream
\* handed in may be one whose write raises (a closed or broken stream).
ArrayFormatAndPrintOn(max) ==
    /\ steps < max
    /\ \E value \in MovieValues, stream \in Sinks, raises \in BOOLEAN :
        \E w0 \in {World(IF raises THEN {stream} ELSE {})} :
        \E w \in {JSONArray_format_and_print_on(w0, value, stream)} :
            Commit(w, Call("format_and_print_on", 0, ARRAY, stream, <<>>, value,
                           NoAction, w))

\* JSONArrayMovieFormatter.collect_and_print()
CollectAndPrint(max) ==
    /\ steps < max
    /\ \E w0 \in {World({})} :
       \E w \in {collect_and_print(w0)} :
            Commit(w, Call("collect_and_print", 0, ARRAY, "", <<>>,
                           MovieValue(<<>>, <<>>), NoAction, w))

\* ExampleMoviesClientStreamAdaptor(sys.stdout, formatter).append(movie)
StreamAppend(max) ==
    /\ steps < max
    /\ \E m \in MovieIds, k \in Formatters :
        \E w0 \in {World({})} :
        \E w \in {StreamAdaptor_append(w0, STDOUT, k, m)} :
            Commit(w, Call("stream_append", m, k, STDOUT, <<>>,
                           MovieValue(<<>>, <<>>), NoAction, w))

\* ExampleMoviesClientFileAdaptor(path, formatter).append(movie)
FileAppend(max) ==
    /\ steps < max
    /\ \E m \in MovieIds, k \in Formatters :
        \E w0 \in {World({})} :
        \E w \in {FileAdaptor_append(w0, k, m)} :
            Commit(w, Call("file_append", m, k, FILE, <<>>,
                           MovieValue(<<>>, <<>>), NoAction, w))

---------------------------------------------------------------------------
(* Specifications.  The program is a library whose calls a client makes    *)
(* in any order; each specification lets the client make the calls of one  *)
(* part of it.                                                             *)

\* The lister and the movie predicate, with the entry point's callbacks.
NextLister ==
    \/ IfDirectedByDo(MaxListerSteps)
    \/ ApplyToMoviesDirectedBy(MaxListerSteps)

SpecLister == Init /\ [][NextLister]_vars

\* The JSONArrayMovieFormatter instance.
NextFormatter ==
    \/ ArrayInit(MaxFormatterSteps)
    \/ FormatWith(MaxFormatterSteps, {ARRAY})
    \/ ArrayFormatAndPrintOn(MaxFormatterSteps)
    \/ CollectAndPrint(MaxFormatterSteps)

SpecFormatter == Init /\ [][NextFormatter]_vars

\* Movies formatting and printing themselves, and the client adaptors.
NextMovie ==
    \/ FormatWith(MaxMovieSteps, Formatters)
    \/ PrintOn(MaxMovieSteps)
    \/ FormatAndPrintOn(MaxMovieSteps)
    \/ StreamAppend(MaxMovieSteps)
    \/ FileAppend(MaxMovieSteps)

SpecMovie == Init /\ [][NextMovie]_vars

\* Repeated formatting of the movies by the three formatters.
NextFormat ==
    FormatWith(MaxFormatSteps, Formatters)

SpecFormat == Init /\ [][NextFormat]_vars

---------------------------------------------------------------------------
(* Reading a call's effects.                                               *)

\* The movies the callback was invoked with, in invocation order.
Invoked(events) ==
    LET acts == SelectSeq(events, LAMBDA e : e.ev = "action")
    IN  [i \in 1..Len(acts) |-> acts[i].movie]

\* The successful writes of a call, in order.
Writes(events) == SelectSeq(events, LAMBDA e : e.ev = "write")

RECURSIVE Concat(_)
Concat(texts) ==
    IF texts = <<>> THEN <<>> ELSE Head(texts) \o Concat(Tail(texts))

\* All the text a call wrote, to whatever stream.
Written(events) ==
    LET ws == Writes(events) IN Concat([i \in 1..Len(ws) |-> ws[i].text])

\* The collection's movies directed by director, in declaration order.
MatchingMovies(director) ==
    SelectSeq([i \in 1..Len(movies) |-> i],
              LAMBDA i : movies[i]._director = director)

\* The streams the array formatter's format_and_print_on calls were given.
StreamsSeen ==
    LET cs == SelectSeq(arrayCalls, LAMBDA c : c.op = "format_and_print_on")
    IN  [i \in 1..Len(cs) |-> cs[i].stream]

\* The entries of the first n calls made on the array formatter.
CallEntries(n) == [i \in 1..n |-> arrayCalls[i].entry]

---------------------------------------------------------------------------
(* Claims                                                                  *)

\* C1: apply_to_movies_directed_by(action, D) invokes action exactly once for
\* each movie of the collection whose director equals D, in declaration
\* order, for no other movie, and not at all when no movie matches.
C1_ListerInvokesMatchesInOrder ==
    last.op = "apply_to_movies_directed_by" =>
        Invoked(last.events) = MatchingMovies(last.director)

\* C1 witness: a listing by David Lynch has invoked the action for the
\* second, fourth and sixth movie, in that order.
C1_Witness ==
    /\ last.op = "apply_to_movies_directed_by"
    /\ last.director = DavidLynch
    /\ Invoked(last.events) = <<2, 4, 6>>

\* C2: M.if_directed_by_do(D, action) invokes action, with M, iff M's
\* director is exactly D; when it differs no action runs and M's title,
\* director and formatted-text slot are unchanged; M is returned either way.
C2_IfDirectedByDoExactMatch ==
    [][ last'.op = "if_directed_by_do" =>
          LET m == last'.movie
              D == last'.director
          IN  /\ Invoked(last'.events) =
                    IF movies[m]._director = D THEN <<m>> ELSE <<>>
              /\ movies[m]._director # D =>
                    /\ last'.events = <<>>
                    /\ movies' = movies
              /\ movies'[m]._title = movies[m]._title
              /\ movies'[m]._director = movies[m]._director
              /\ last'.ret = ReturnsMovie(m) ]_vars

\* C2 witness: a movie by David Lynch was asked about "david lynch" and no
\* action ran.
C2_Witness ==
    /\ last.op = "if_directed_by_do"
    /\ last.director = LowerDavidLynch
    /\ movies[last.movie]._director = DavidLynch
    /\ last.events = <<>>

\* C3 as stated: after two file-adaptor appends in sequence, the file holds
\* only the text of the second.
C3_SecondAppendOverwrites ==
    Len(fileLog) >= 2 => file = fileLog[Len(fileLog)]

\* C3 amended: the file holds the text of every append, in call order; the
\* truncation at the append position removes nothing.
C3_AppendsAccumulate ==
    file = Concat(fileLog)

\* C3 witness: two appends were made and both texts are in the file.
C3_Witness ==
    /\ last.op = "file_append"
    /\ Len(fileLog) = 2
    /\ fileLog[1] # <<>>
    /\ file = fileLog[1] \o fileLog[2]

\* C4: after N calls to format / format_and_print_on the accumulator holds
\* exactly the N entries, in call order, and the text of every call encodes
\* all the entries accumulated up to and including that call.
C4_ArrayAccumulatesEveryCall ==
    /\ Len(formatter._array) = Len(arrayCalls)
    /\ \A i \in 1..Len(arrayCalls) :
          /\ formatter._array[i] = arrayCalls[i].entry
          /\ arrayCalls[i].text =
                json_dumps_list(SubSeq(formatter._array, 1, i)) \o NL

\* C4 witness: three calls, of both methods, have been made on one instance.
C4_Witness ==
    /\ Len(arrayCalls) = 3
    /\ \E i, j \in 1..3 : /\ arrayCalls[i].op = "format"
                          /\ arrayCalls[j].op = "format_and_print_on"

\* C5 as stated: collect_and_print writes nothing when nothing was
\* accumulated, and after at least one call to format writes the
\* accumulated JSON array with no trailing newline.
C5_CollectWritesArrayNoNewline ==
    last.op = "collect_and_print" =>
        /\ formatter._array = <<>> => Writes(last.events) = <<>>
        /\ (\E i \in 1..Len(arrayCalls) : arrayCalls[i].op = "format") =>
              Written(last.events) = json_dumps_list(formatter._array)

\* C5 amended: collect_and_print writes nothing when nothing was accumulated
\* or when no format_and_print_on call has given the formatter a stream;
\* otherwise it writes, once, the accumulated JSON array and a newline.
C5_CollectWritesArrayAndNewline ==
    last.op = "collect_and_print" =>
        IF formatter._array # <<>> /\ StreamsSeen # <<>>
        THEN /\ Len(last.events) = 1
             /\ Written(last.events) = json_dumps_list(formatter._array) \o NL
        ELSE last.events = <<>>

\* C5 witness: collect_and_print wrote after both a format and a
\* format_and_print_on call.
C5_Witness ==
    /\ last.op = "collect_and_print"
    /\ Writes(last.events) # <<>>
    /\ \E i \in 1..Len(arrayCalls) : arrayCalls[i].op = "format"

\* C6 as stated: collect_and_print writes to the stream of the most recent
\* format_and_print_on call and to no other.
C6_CollectWritesToLastStream ==
    last.op = "collect_and_print" =>
        \A i \in 1..Len(last.events) :
            last.events[i].stream = StreamsSeen[Len(StreamsSeen)]

\* C6 amended: collect_and_print writes to the stream of the first
\* format_and_print_on call made on the instance and to no other.
C6_CollectWritesToFirstStream ==
    last.op = "collect_and_print" =>
        \A i \in 1..Len(last.events) :
            /\ last.events[i].ev = "write"
            /\ last.events[i].stream = StreamsSeen[1]

\* C6 witness: the formatter was given two different streams and
\* collect_and_print wrote.
C6_Witness ==
    /\ last.op = "collect_and_print"
    /\ Writes(last.events) # <<>>
    /\ Len(StreamsSeen) = 2
    /\ StreamsSeen[1] # StreamsSeen[2]

\* C7: a movie's slot always holds the text computed by the most recent
\* format call on it ('' before any); print_on writes exactly the slot to
\* the given stream and leaves every movie as it was.
C7_PrintWritesLastFormat ==
    [][ /\ \A m \in MovieIds :
              movies'[m]._formatted_movie =
                  IF hist'[m] = <<>> THEN <<>> ELSE hist'[m][Len(hist'[m])].text
        /\ last'.op = "print_on" =>
              /\ last'.events = <<Event("write", 0, last'.stream,
                                        movies[last'.movie]._formatted_movie)>>
              /\ sinks'[last'.stream] =
                    sinks[last'.stream] \o movies[last'.movie]._formatted_movie
              /\ movies' = movies
              /\ hist' = hist ]_vars

\* C7 witness: print_on has written the text a format call stored.
C7_Witness ==
    /\ last.op = "print_on"
    /\ hist[last.movie] # <<>>
    /\ Written(last.events) = movies[last.movie]._formatted_movie
    /\ Written(last.events) # <<>>

\* C8: whichever way the JSON-object formatter emits a movie (format then
\* print_on, or format_and_print_on), the text written is the JSON object
\* with the keys title, director followed by exactly one newline.
C8_JsonObjectOneNewline ==
    /\ (last.op = "format_and_print_on" /\ last.formatter = JSON) =>
          Written(last.events) = json_dumps_dict(asdict(last.value)) \o NL
    /\ (last.op = "stream_append" /\ last.formatter = JSON) =>
          Written(last.events) =
              json_dumps_dict([title |-> movies[last.movie]._title,
                               director |-> movies[last.movie]._director]) \o NL

\* C9: a second format of the same movie by the simple-string or the
\* JSON-object formatter computes the text the first computed and leaves the
\* slot as the first left it, whatever calls came in between.
C9_StatelessFormatIdempotent ==
    (last.op = "format_with" /\ last.formatter \in {SIMPLE, JSON}) =>
        LET h == hist[last.movie]
        IN  \A i \in 1..(Len(h) - 1) :
                h[i].formatter = last.formatter =>
                    /\ h[Len(h)].text = h[i].text
                    /\ movies[last.movie]._formatted_movie = h[i].stored

\* C9 witness: a movie was formatted by a stateless formatter, then by
\* another formatter, then by the first again.
C9_Witness ==
    /\ last.op = "format_with"
    /\ last.formatter \in {SIMPLE, JSON}
    /\ Len(hist[last.movie]) = 3
    /\ hist[last.movie][1].formatter = last.formatter
    /\ hist[last.movie][2].formatter # last.formatter

\* C10: in the array formatter's format_and_print_on the entry is appended
\* before the write: a call whose write raised has still added its entry,
\* the entry stays, and a later successful call's text includes it.
C10_AppendBeforeWrite ==
    /\ (last.op = "format_and_print_on" /\ last.formatter = ARRAY /\ last.raised) =>
          /\ formatter._array # <<>>
          /\ formatter._array[Len(formatter._array)] = asdict(last.value)
          /\ Writes(last.events) = <<>>
    /\ \A i \in 1..Len(arrayCalls) :
          arrayCalls[i].raised =>
              /\ i <= Len(formatter._array)
              /\ formatter._array[i] = arrayCalls[i].entry
              /\ \A j \in (i + 1)..Len(arrayCalls) :
                    ~arrayCalls[j].raised =>
                        arrayCalls[j].text = json_dumps_list(CallEntries(j)) \o NL

\* C10 witness: a write raised, and a later format_and_print_on succeeded.
C10_Witness ==
    /\ Len(arrayCalls) >= 2
    /\ arrayCalls[1].raised
    /\ arrayCalls[Len(arrayCalls)].op = "format_and_print_on"
    /\ ~arrayCalls[Len(arrayCalls)].raised
    /\ last.op = "format_and_print_on"

====
